---------------------------- MODULE Spec2Model ----------------------------
(***************************************************************************)
(* A model of the bracket-tag syntax checker of tagunmatched.py.           *)
(*                                                                         *)
(* One SyntaxChecker instance is modelled: its fields are the variables,   *)
(* Init is the instance after __init__, and check() runs as a sequence of  *)
(* steps, one per loop iteration of check / parse_tag.  Every step is a    *)
(* function on checker records (check_escape, name_loop, arg_loop, ...);   *)
(* the actions apply it to the variables, and check_syntax iterates the    *)
(* same functions to completion, which is how two runs are compared.       *)
(*                                                                         *)
(* A character is a string (of one character, but for Backquote and        *)
(* NonAsciiLetter); the input text and a tag name are sequences of         *)
(* characters.  Positions are 0-based as in the source.                    *)
(***************************************************************************)
EXTENDS Integers, Sequences, FiniteSets

VARIABLES
  code,             \* self.code
  single_tags,      \* self.single_tags
  group_tags,       \* self.group_tags
  raise_exception,  \* self.raise_exception
  pos,              \* self.pos
  line,             \* self.line
  col,              \* self.col
  stack,            \* self.stack
  pc,               \* the loop of check / parse_tag the checker is in
  is_closing,       \* parse_tag's local is_closing
  tag_name,         \* parse_tag's local tag_name
  ret,              \* the value parse_tag returned to check
  result,           \* how check() ended: "none" while it is running
  raised,           \* the DSLSyntaxError raised, if any (at most one)
  printed           \* the diagnostics printed by error()

vars == <<code, single_tags, group_tags, raise_exception, pos, line, col,
          stack, pc, is_closing, tag_name, ret, result, raised, printed>>

-----------------------------------------------------------------------------
(* Characters *)

\* What current_char() returns at the end of the input.
None == "None"

\* The escape marker of the source, '`' (a TLA+ string cannot hold it).
Backquote == "backquote"

\* A letter outside ASCII (e-acute), for which str.isalnum() is true.
NonAsciiLetter == "U+00E9"

AsciiAlnum == {"a", "b", "i", "r", "u", "x", "y", "A", "Z", "0", "9"}

\* str.isalnum(): true of every Unicode letter and digit, not only ASCII ones.
isalnum(ch) == ch \in AsciiAlnum \cup {NonAsciiLetter}

is_whitespace(ch) == ch \in {" ", "\t", "\n", "\r"}

-----------------------------------------------------------------------------
(* The messages of error(), by the kind of failure they report *)

Msg(kind) == [kind |-> kind, tag |-> <<>>, last |-> <<>>]
MsgTag(kind, name) == [kind |-> kind, tag |-> name, last |-> <<>>]

DanglingEscape == Msg("DanglingEscape")
MissingTagName == Msg("MissingTagName")
EscapeInTagName == Msg("EscapeInTagName")
InvalidTagNameStart == Msg("InvalidTagNameStart")
UnterminatedTagName == Msg("UnterminatedTagName")
InvalidTagNameChar == Msg("InvalidTagNameChar")
UnterminatedQuotedArgument == Msg("UnterminatedQuotedArgument")
DanglingEscapeQuoted == Msg("DanglingEscape (quoted)")
DanglingEscapeUnquoted == Msg("DanglingEscape (unquoted)")
IllegalBracketInArgument == Msg("IllegalBracketInArgument")
MissingTagTerminator == Msg("MissingTagTerminator")
CloseOfSingleTag(name) == MsgTag("CloseOfSingleTag", name)
CloseWithoutOpen(name) == MsgTag("CloseWithoutOpen", name)
MismatchedClose(name, last_tag) ==
  [kind |-> "MismatchedClose", tag |-> name, last |-> last_tag]
UnknownTag(name) == MsgTag("UnknownTag", name)
UnclosedTags == Msg("UnclosedTags")

-----------------------------------------------------------------------------
(* The checker as a record, and its methods as functions on records *)

SyntaxChecker(c, single, group, raise) ==
  [code |-> c, single_tags |-> single, group_tags |-> group,
   raise_exception |-> raise,
   pos |-> 0, line |-> 1, col |-> 1, stack |-> <<>>,
   pc |-> "check", is_closing |-> FALSE, tag_name |-> <<>>, ret |-> TRUE,
   result |-> "none", raised |-> <<>>, printed |-> <<>>]

Running(s) == s.result = "none"

current_char(s) == IF s.pos < Len(s.code) THEN s.code[s.pos + 1] ELSE None

\* A variant of advance() that takes a newline for an ordinary character.
advance_no_newline(s) ==
  IF s.pos >= Len(s.code) THEN [s EXCEPT !.result = "IndexError"]
  ELSE [s EXCEPT !.col = @ + 1, !.pos = @ + 1]

\* self.code[self.pos] raises IndexError when pos is the length of the text.
advance(s) ==
  IF s.pos >= Len(s.code)
    THEN [s EXCEPT !.result = "IndexError"]
    ELSE LET ch == s.code[s.pos + 1] IN
         [s EXCEPT !.pos = @ + 1,
                   !.line = IF ch = "\n" THEN @ + 1 ELSE @,
                   !.col = IF ch = "\n" THEN 1 ELSE @ + 1]

\* A variant of error() that takes no account of raise_exception.
error_always_prints(s, message) ==
  [s EXCEPT !.printed = Append(@, [line |-> s.line, col |-> s.col,
                                   message |-> message, stack |-> s.stack])]

\* error(): raises, or prints the diagnostic and the stack and returns False.
error(s, message) ==
  LET failure == [line |-> s.line, col |-> s.col,
                  message |-> message, stack |-> s.stack]
  IN IF s.raise_exception
       THEN [s EXCEPT !.result = "DSLSyntaxError", !.raised = Append(@, failure)]
       ELSE [s EXCEPT !.printed = Append(@, failure)]

\* "return self.error(...)" inside check().
check_fail(s, message) ==
  LET e == error(s, message)
  IN IF Running(e) THEN [e EXCEPT !.result = "False"] ELSE e

\* "return <value>" inside parse_tag(): control goes back to line 72 of check().
parse_tag_return(s, value) == [s EXCEPT !.ret = value, !.pc = "tag_ret"]

\* "return self.error(...)" inside parse_tag().
parse_tag_fail(s, message) ==
  LET e == error(s, message)
  IN IF Running(e) THEN parse_tag_return(e, FALSE) ELSE e

RECURSIVE skip_whitespace(_)
skip_whitespace(s) ==
  IF current_char(s) # None /\ is_whitespace(current_char(s))
    THEN skip_whitespace(advance(s))
    ELSE s


-----------------------------------------------------------------------------
(* check(): one iteration of the loop of lines 59-77, and the end, 80-82 *)

at_escape(s) == s.pc = "check" /\ s.pos < Len(s.code) /\ current_char(s) = Backquote
at_tag(s) == s.pc = "check" /\ s.pos < Len(s.code) /\ current_char(s) = "["
at_text(s) ==
  s.pc = "check" /\ s.pos < Len(s.code) /\ current_char(s) \notin {Backquote, "["}
at_end(s) == s.pc = "check" /\ s.pos >= Len(s.code)

\* Lines 62-68: the escape marker and the character after it.
check_escape(s) ==
  LET s1 == advance(s)
  IN IF current_char(s1) = None THEN check_fail(s1, DanglingEscape)
     ELSE advance(s1)

\* A variant of lines 76-77 that does not consume the character.
check_text_stay(s) == s

\* Lines 76-77.
check_text(s) == advance(s)

\* A variant of check_end() that does not look at the stack.
check_end_true(s) == [s EXCEPT !.result = "True"]

\* Lines 80-82.
check_end(s) ==
  IF s.stack # <<>> THEN check_fail(s, UnclosedTags)
  ELSE [s EXCEPT !.result = "True"]

\* A variant of lines 72-74 that drops the value parse_tag() returned.
check_tag_return_continue(s) == [s EXCEPT !.pc = "check"]

\* Lines 72-74: what check() does with the value parse_tag() returned.
at_tag_return(s) == s.pc = "tag_ret"
check_tag_return(s) ==
  IF ~s.ret THEN [s EXCEPT !.result = "False"]
  ELSE [s EXCEPT !.pc = "check"]

-----------------------------------------------------------------------------
(* parse_tag() *)

\* Lines 93-112: "[", the closing marker and the first character of the name.
parse_tag_head(s) ==
  LET s1 == advance(s)
      closing == current_char(s1) = "/"
      s2 == IF closing THEN advance(s1) ELSE s1
      s3 == [s2 EXCEPT !.is_closing = closing, !.tag_name = <<>>]
      ch == current_char(s3)
  IN IF ch = None THEN parse_tag_fail(s3, MissingTagName)
     ELSE IF ch = Backquote THEN parse_tag_fail(s3, EscapeInTagName)
     ELSE IF ~(isalnum(ch) \/ ch = "#")
       THEN parse_tag_fail(s3, InvalidTagNameStart)
     ELSE advance([s3 EXCEPT !.tag_name = <<ch>>, !.pc = "name"])

\* A variant of the name loop without the test for the escape marker.
name_loop_no_escape_test(s) ==
  LET ch == current_char(s)
  IN IF ch = None THEN parse_tag_fail(s, UnterminatedTagName)
     ELSE IF is_whitespace(ch) \/ ch = "]"
       THEN [skip_whitespace(s) EXCEPT !.pc = "args"]
     ELSE IF ~(isalnum(ch) \/ ch \in {"#", "_", "-"})
       THEN parse_tag_fail(s, InvalidTagNameChar)
     ELSE advance([s EXCEPT !.tag_name = Append(@, ch)])

\* Lines 115-129: one iteration of the name loop; its break runs line 129.
in_name(s) == s.pc = "name"
name_loop(s) ==
  LET ch == current_char(s)
  IN IF ch = None THEN parse_tag_fail(s, UnterminatedTagName)
     ELSE IF is_whitespace(ch) \/ ch = "]"
       THEN [skip_whitespace(s) EXCEPT !.pc = "args"]
     ELSE IF ch = Backquote THEN parse_tag_fail(s, EscapeInTagName)
     ELSE IF ~(isalnum(ch) \/ ch \in {"#", "_", "-"})
       THEN parse_tag_fail(s, InvalidTagNameChar)
     ELSE advance([s EXCEPT !.tag_name = Append(@, ch)])

\* A variant of the argument loop whose escape marker consumes itself only.
arg_loop_escape_once(s) ==
  LET ws == is_whitespace(current_char(s))
      s1 == IF ws THEN skip_whitespace(s) ELSE s
      ch == current_char(s1)
  IN IF ws /\ ch = "]" THEN [s1 EXCEPT !.pc = "term"]
     ELSE IF ch = "\"" THEN [advance(s1) EXCEPT !.pc = "quote"]
     ELSE IF ch = Backquote
       THEN LET s2 == advance(s1)
            IN IF current_char(s2) = None
                 THEN parse_tag_fail(s2, DanglingEscapeUnquoted)
                 ELSE s2
     ELSE IF ch = "[" THEN parse_tag_fail(s1, IllegalBracketInArgument)
     ELSE advance(s1)

\* A variant of the argument loop that takes an unescaped "[" of an unquoted
\* argument for content.
arg_loop_bracket_content(s) ==
  LET ws == is_whitespace(current_char(s))
      s1 == IF ws THEN skip_whitespace(s) ELSE s
      ch == current_char(s1)
  IN IF ws /\ ch = "]" THEN [s1 EXCEPT !.pc = "term"]
     ELSE IF ch = "\"" THEN [advance(s1) EXCEPT !.pc = "quote"]
     ELSE IF ch = Backquote
       THEN LET s2 == advance(s1)
            IN IF current_char(s2) = None
                 THEN parse_tag_fail(s2, DanglingEscapeUnquoted)
                 ELSE advance(s2)
     ELSE advance(s1)

\* Lines 132-170: one iteration of the argument loop (its condition holds).
in_args(s) == s.pc = "args" /\ current_char(s) \notin {None, "]"}
arg_loop(s) ==
  LET ws == is_whitespace(current_char(s))
      s1 == IF ws THEN skip_whitespace(s) ELSE s
      ch == current_char(s1)
  IN IF ws /\ ch = "]" THEN [s1 EXCEPT !.pc = "term"]
     ELSE IF ch = "\"" THEN [advance(s1) EXCEPT !.pc = "quote"]
     ELSE IF ch = Backquote
       THEN LET s2 == advance(s1)
            IN IF current_char(s2) = None
                 THEN parse_tag_fail(s2, DanglingEscapeUnquoted)
                 ELSE advance(s2)
     ELSE IF ch = "[" THEN parse_tag_fail(s1, IllegalBracketInArgument)
     ELSE advance(s1)

\* A variant of the quoted loop that takes the escape marker for an ordinary
\* character.
quote_loop_plain(s) ==
  LET ch == current_char(s)
  IN IF ch = None THEN parse_tag_fail(s, UnterminatedQuotedArgument)
     ELSE IF ch = "\"" THEN [advance(s) EXCEPT !.pc = "args"]
     ELSE advance(s)

\* Lines 143-157: one iteration of the loop over a quoted argument.
in_quote(s) == s.pc = "quote"
quote_loop(s) ==
  LET ch == current_char(s)
  IN IF ch = None THEN parse_tag_fail(s, UnterminatedQuotedArgument)
     ELSE IF ch = Backquote
       THEN LET s1 == advance(s)
            IN IF current_char(s1) = None
                 THEN parse_tag_fail(s1, DanglingEscapeQuoted)
                 ELSE advance(s1)
     ELSE IF ch = "\"" THEN [advance(s) EXCEPT !.pc = "args"]
     ELSE advance(s)

\* A variant of classify_opening() that lets a name of neither set pass.
classify_opening_lenient(s) ==
  IF s.tag_name \in s.single_tags THEN parse_tag_return(s, TRUE)
  ELSE IF s.tag_name \in s.group_tags
    THEN parse_tag_return([s EXCEPT !.stack = Append(@, s.tag_name)], TRUE)
  ELSE parse_tag_return(s, TRUE)

\* A variant of classify_opening() that looks in the group set first.
classify_opening_group_first(s) ==
  IF s.tag_name \in s.group_tags
    THEN parse_tag_return([s EXCEPT !.stack = Append(@, s.tag_name)], TRUE)
  ELSE IF s.tag_name \in s.single_tags THEN parse_tag_return(s, TRUE)
  ELSE parse_tag_fail(s, UnknownTag(s.tag_name))

\* The classification of an opening tag, lines 187-193.
classify_opening(s) ==
  IF s.tag_name \in s.single_tags THEN parse_tag_return(s, TRUE)
  ELSE IF s.tag_name \in s.group_tags
    THEN parse_tag_return([s EXCEPT !.stack = Append(@, s.tag_name)], TRUE)
  ELSE parse_tag_fail(s, UnknownTag(s.tag_name))

\* A variant of classify() that reads the top of the stack and leaves it.
classify_peek(s) ==
  IF s.is_closing
    THEN IF s.tag_name \in s.single_tags
           THEN parse_tag_fail(s, CloseOfSingleTag(s.tag_name))
         ELSE IF s.stack = <<>>
           THEN parse_tag_fail(s, CloseWithoutOpen(s.tag_name))
         ELSE LET last_tag == s.stack[Len(s.stack)]
              IN IF last_tag # s.tag_name
                   THEN parse_tag_fail(s, MismatchedClose(s.tag_name, last_tag))
                   ELSE parse_tag_return(s, TRUE)
    ELSE classify_opening(s)

\* A variant of classify() that pops without comparing the names.
classify_no_compare(s) ==
  IF s.is_closing
    THEN IF s.tag_name \in s.single_tags
           THEN parse_tag_fail(s, CloseOfSingleTag(s.tag_name))
         ELSE IF s.stack = <<>>
           THEN parse_tag_fail(s, CloseWithoutOpen(s.tag_name))
         ELSE parse_tag_return([s EXCEPT !.stack = SubSeq(@, 1, Len(@) - 1)], TRUE)
    ELSE classify_opening(s)

\* A variant of classify() that pops before it looks for a single name.
classify_pop_first(s) ==
  IF s.is_closing
    THEN IF s.stack = <<>>
           THEN parse_tag_fail(s, CloseWithoutOpen(s.tag_name))
         ELSE LET last_tag == s.stack[Len(s.stack)]
                  s1 == [s EXCEPT !.stack = SubSeq(@, 1, Len(@) - 1)]
              IN IF s.tag_name \in s.single_tags
                   THEN parse_tag_fail(s1, CloseOfSingleTag(s.tag_name))
                 ELSE IF last_tag # s.tag_name
                   THEN parse_tag_fail(s1, MismatchedClose(s.tag_name, last_tag))
                   ELSE parse_tag_return(s1, TRUE)
    ELSE classify_opening(s)

\* A variant of classify() whose mismatch is reported with the stack as it was
\* before the pop.
classify_report_unpopped(s) ==
  IF s.is_closing
    THEN IF s.tag_name \in s.single_tags
           THEN parse_tag_fail(s, CloseOfSingleTag(s.tag_name))
         ELSE IF s.stack = <<>>
           THEN parse_tag_fail(s, CloseWithoutOpen(s.tag_name))
         ELSE LET last_tag == s.stack[Len(s.stack)]
                  s1 == [s EXCEPT !.stack = SubSeq(@, 1, Len(@) - 1)]
              IN IF last_tag # s.tag_name
                   THEN parse_tag_fail(s, MismatchedClose(s.tag_name, last_tag))
                   ELSE parse_tag_return(s1, TRUE)
    ELSE classify_opening(s)

\* Lines 178-194: the tag is classified and the stack popped or pushed.
classify(s) ==
  IF s.is_closing
    THEN IF s.tag_name \in s.single_tags
           THEN parse_tag_fail(s, CloseOfSingleTag(s.tag_name))
         ELSE IF s.stack = <<>>
           THEN parse_tag_fail(s, CloseWithoutOpen(s.tag_name))
         ELSE LET last_tag == s.stack[Len(s.stack)]
                  s1 == [s EXCEPT !.stack = SubSeq(@, 1, Len(@) - 1)]
              IN IF last_tag # s.tag_name
                   THEN parse_tag_fail(s1, MismatchedClose(s.tag_name, last_tag))
                   ELSE parse_tag_return(s1, TRUE)
    ELSE classify_opening(s)

\* Lines 173-194: after the argument loop.
at_tag_end(s) ==
  \/ s.pc = "term"
  \/ s.pc = "args" /\ current_char(s) \in {None, "]"}
tag_end(s) ==
  IF current_char(s) # "]" THEN parse_tag_fail(s, MissingTagTerminator)
  ELSE classify(advance(s))

-----------------------------------------------------------------------------
(* check_syntax(): a checker is made and check() runs to its end *)

check_step(s) ==
  IF at_escape(s) THEN check_escape(s)
  ELSE IF at_tag(s) THEN parse_tag_head(s)
  ELSE IF at_text(s) THEN check_text(s)
  ELSE IF at_end(s) THEN check_end(s)
  ELSE IF at_tag_return(s) THEN check_tag_return(s)
  ELSE IF in_name(s) THEN name_loop(s)
  ELSE IF in_args(s) THEN arg_loop(s)
  ELSE IF in_quote(s) THEN quote_loop(s)
  ELSE tag_end(s)

RECURSIVE check(_)
check(s) == IF Running(s) THEN check(check_step(s)) ELSE s

check_syntax(dsl_code, single, group, raise) ==
  check(SyntaxChecker(dsl_code, single, group, raise))

-----------------------------------------------------------------------------
(* The inputs the checker is run on *)

\* The number of pieces of a document made of whole tags and text.
MaxPieces == 4
\* The number of arbitrary characters after a context.
MaxRaw == 2

b == <<"b">>
i == <<"i">>
br == <<"b", "r">>

OpenTag(name) == <<"[">> \o name \o <<"]">>
CloseTag(name) == <<"[", "/">> \o name \o <<"]">>

\* Whole tags of the group names, the single name and a name of neither set,
\* and a character of ordinary text.
Pieces ==
  {OpenTag(b), OpenTag(i), OpenTag(br), OpenTag(<<"x">>), CloseTag(b),
   CloseTag(i), <<"x">>}

RawChars == {Backquote, "[", "]", "/", "\"", "\n", "b", "_", NonAsciiLetter}

\* The starts of a text that arbitrary characters are put after.
Contexts ==
  {<<>>, <<"[">>, OpenTag(b), <<"[", "b", " ">>, <<"[", "b", " ", "\"">>,
   <<"[", "b", "r", " ">>, OpenTag(b) \o <<"[", "/", "b", " ">>,
   <<"[", "/", "x">>, OpenTag(b) \o <<"[", "/", "x">>,
   <<"[", "b", "r", " ", Backquote>>}

SeqsUpTo(S, n) == UNION {[1..k -> S] : k \in 0..n}

RECURSIVE Flatten(_)
Flatten(d) == IF d = <<>> THEN <<>> ELSE Head(d) \o Flatten(Tail(d))

Inputs ==
  {Flatten(d) : d \in SeqsUpTo(Pieces, MaxPieces)}
    \cup {c \o r : c \in Contexts, r \in SeqsUpTo(RawChars, MaxRaw)}

\* The tag sets: those of the tests, and one with a name in both.
TagSets ==
  {[single |-> {br}, group |-> {b, i}],
   [single |-> {br, b}, group |-> {b, i}]}

-----------------------------------------------------------------------------
(* The state machine *)

St ==
  [code |-> code, single_tags |-> single_tags, group_tags |-> group_tags,
   raise_exception |-> raise_exception,
   pos |-> pos, line |-> line, col |-> col, stack |-> stack,
   pc |-> pc, is_closing |-> is_closing, tag_name |-> tag_name, ret |-> ret,
   result |-> result, raised |-> raised, printed |-> printed]

\* The variables become the fields of the checker s, which is worked out once.
Becomes(s) ==
  \E n \in {s} :
    /\ pos' = n.pos /\ line' = n.line /\ col' = n.col /\ stack' = n.stack
    /\ pc' = n.pc /\ is_closing' = n.is_closing /\ tag_name' = n.tag_name
    /\ ret' = n.ret /\ result' = n.result /\ raised' = n.raised
    /\ printed' = n.printed
    /\ UNCHANGED <<code, single_tags, group_tags, raise_exception>>

Init ==
  \E c \in Inputs, t \in TagSets, r \in BOOLEAN :
    LET s == SyntaxChecker(c, t.single, t.group, r)
    IN /\ code = s.code /\ single_tags = s.single_tags
       /\ group_tags = s.group_tags /\ raise_exception = s.raise_exception
       /\ pos = s.pos /\ line = s.line /\ col = s.col /\ stack = s.stack
       /\ pc = s.pc /\ is_closing = s.is_closing /\ tag_name = s.tag_name
       /\ ret = s.ret /\ result = s.result /\ raised = s.raised
       /\ printed = s.printed

CheckEscape == Running(St) /\ at_escape(St) /\ Becomes(check_escape(St))
CheckTag == Running(St) /\ at_tag(St) /\ Becomes(parse_tag_head(St))
CheckText == Running(St) /\ at_text(St) /\ Becomes(check_text(St))
CheckEnd == Running(St) /\ at_end(St) /\ Becomes(check_end(St))
CheckTagReturn ==
  Running(St) /\ at_tag_return(St) /\ Becomes(check_tag_return(St))
NameLoop == Running(St) /\ in_name(St) /\ Becomes(name_loop(St))
ArgLoop == Running(St) /\ in_args(St) /\ Becomes(arg_loop(St))
QuoteLoop == Running(St) /\ in_quote(St) /\ Becomes(quote_loop(St))
TagEnd == Running(St) /\ at_tag_end(St) /\ Becomes(tag_end(St))

Next ==
  \/ CheckEscape
  \/ CheckTag
  \/ CheckText
  \/ CheckEnd
  \/ CheckTagReturn
  \/ NameLoop
  \/ ArgLoop
  \/ QuoteLoop
  \/ TagEnd

Spec == Init /\ [][Next]_vars

-----------------------------------------------------------------------------
(* What the properties below are stated with *)

\* The failures error() has reported, raised or printed (at most one).
Failures == raised \o printed
FailedWith(kind) == \E j \in 1..Len(Failures) : Failures[j].message.kind = kind
Failed == result \in {"False", "DSLSyntaxError"}

\* The name grammar [A-Za-z0-9#][A-Za-z0-9#_-]*.
NameStart == AsciiAlnum \cup {"#"}
NameRest == NameStart \cup {"_", "-"}
MatchesNameGrammar(name) ==
  /\ name # <<>>
  /\ name[1] \in NameStart
  /\ \A j \in 2..Len(name) : name[j] \in NameRest

\* The first index from k on at which text holds ch, or 0.
IndexFrom(text, k, ch) ==
  LET J == {j \in k..Len(text) : text[j] = ch}
  IN IF J = {} THEN 0 ELSE CHOOSE j \in J : \A m \in J : j <= m

\* A name is a group tag when it is in the group set and not taken for a
\* single tag (a name in both sets is classified single).
IsSingle(name) == name \in single_tags
IsGroup(name) == name \in group_tags /\ name \notin single_tags

\* The part of a tag after its name: nothing, or whitespace-separated
\* unquoted arguments of plain characters.
PlainArgs(rest) ==
  \/ rest = <<>>
  \/ /\ is_whitespace(rest[1])
     /\ ~is_whitespace(rest[Len(rest)])
     /\ \A j \in 1..Len(rest) : rest[j] \notin {"[", "]", "\"", Backquote}

\* text from index k on is ordinary text, opening single tags and properly
\* nested pairs of group tags that close the open tags in order.
RECURSIVE Balanced(_, _, _)
Balanced(text, k, open) ==
  IF k > Len(text) THEN open = <<>>
  ELSE IF text[k] = Backquote THEN FALSE
  ELSE IF text[k] # "[" THEN Balanced(text, k + 1, open)
  ELSE
    LET close == IndexFrom(text, k, "]")
        closing == k < Len(text) /\ text[k + 1] = "/"
        first == IF closing THEN k + 2 ELSE k + 1
        body == SubSeq(text, first, close - 1)
        N == {n \in 0..Len(body) : \A j \in 1..n : ~is_whitespace(body[j])}
        n == CHOOSE m \in N : \A m2 \in N : m2 <= m
        name == SubSeq(body, 1, n)
        rest == SubSeq(body, n + 1, Len(body))
    IN /\ close # 0
       /\ MatchesNameGrammar(name)
       /\ IF closing
            THEN /\ rest = <<>>
                 /\ IsGroup(name)
                 /\ open # <<>>
                 /\ open[Len(open)] = name
                 /\ Balanced(text, close + 1, SubSeq(open, 1, Len(open) - 1))
            ELSE /\ PlainArgs(rest)
                 /\ \/ IsSingle(name) /\ Balanced(text, close + 1, open)
                    \/ IsGroup(name)
                         /\ Balanced(text, close + 1, Append(open, name))

BalancedDoc == Balanced(code, 1, <<>>)

-----------------------------------------------------------------------------
(* C1. Balance *)

\* C1: on an input made only of ordinary text, opening single tags and properly
\* nested pairs of group tags, check reports no failure and, once it has
\* ended, has returned True with the input consumed and the stack empty.
C1_Balance ==
  BalancedDoc =>
    /\ result \in {"none", "True"}
    /\ Failures = <<>>
    /\ result = "True" => stack = <<>> /\ pos = Len(code)

\* [b][i][/i][/b] has been checked to the end.
C1_Witness ==
  /\ code = OpenTag(b) \o OpenTag(i) \o CloseTag(i) \o CloseTag(b)
  /\ BalancedDoc
  /\ result = "True"

-----------------------------------------------------------------------------
(* C2. Stack-emptiness *)

\* C2: check returns True only with the whole input consumed and the stack
\* empty, and when the top-level loop reaches the end of the input with a
\* non-empty stack, check fails with UnclosedTags and the failure carries
\* that stack.
C2_StackEmptiness ==
  [][/\ result' = "True" => pos' = Len(code) /\ stack' = <<>>
     /\ (result = "none" /\ pc = "check" /\ pos >= Len(code) /\ stack # <<>>)
          => /\ Failed'
             /\ Failures' = <<[line |-> line, col |-> col,
                               message |-> UnclosedTags, stack |-> stack]>>
    ]_vars

\* "[b]x" has failed with UnclosedTags and the stack [b].
C2_Witness ==
  /\ code = OpenTag(b) \o <<"x">>
  /\ Failed
  /\ FailedWith("UnclosedTags")
  /\ Failures[1].stack = <<b>>

-----------------------------------------------------------------------------
(* C3. Mismatch detection *)

\* The checker is about to classify a well-formed closing tag that is not a
\* single tag, and the top of the non-empty stack is another name.
AtMismatchedClose ==
  /\ result = "none"
  /\ at_tag_end(St)
  /\ current_char(St) = "]"
  /\ is_closing
  /\ tag_name \notin single_tags
  /\ stack # <<>>
  /\ stack[Len(stack)] # tag_name

\* C3: a well-formed closing tag, not a single tag, that meets a non-empty
\* stack with another name on top fails with MismatchedClose, and after that
\* failure check never returns True.
C3_MismatchDetection ==
  [][/\ AtMismatchedClose => FailedWith("MismatchedClose")'
     /\ FailedWith("MismatchedClose") => result' \in {"False", "DSLSyntaxError"}
    ]_vars

\* [b][i][/b][/i] has failed with MismatchedClose right after [/b].
C3_Witness ==
  /\ code = OpenTag(b) \o OpenTag(i) \o CloseTag(b) \o CloseTag(i)
  /\ Failed
  /\ FailedWith("MismatchedClose")
  /\ pos = 10

-----------------------------------------------------------------------------
(* C4. MissingTagTerminator *)

RestIsWhitespace == \A j \in (pos + 1)..Len(code) : is_whitespace(code[j])

\* C4: when, after the name and the arguments read so far, only whitespace
\* is left before the end of the input, check fails with MissingTagTerminator.
C4_MissingTagTerminator ==
  [][(result = "none" /\ pc = "args" /\ RestIsWhitespace)
       => FailedWith("MissingTagTerminator")'
    ]_vars

-----------------------------------------------------------------------------
(* C5. Tag-name grammar *)

\* C5: a tag is past the parsing of its name only if the name matches
\* [A-Za-z0-9#][A-Za-z0-9#_-]*.
C5_TagNameGrammar ==
  pc \in {"args", "quote", "term"} => MatchesNameGrammar(tag_name)

-----------------------------------------------------------------------------
(* C6. Closing-tag grammar *)

\* The last index up to k at which text holds no whitespace, or 0.
LastNonWhitespace(text, k) ==
  LET J == {j \in 1..k : ~is_whitespace(text[j])}
  IN IF J = {} THEN 0 ELSE CHOOSE j \in J : \A m \in J : m <= j

\* C6: a closing tag that has been accepted carries no argument: what stands
\* before its "]", whitespace apart, is "[/" and the name.
C6_ClosingTagGrammar ==
  (pc = "tag_ret" /\ ret /\ is_closing) =>
    LET e == LastNonWhitespace(code, pos - 1)
        opener == <<"[", "/">> \o tag_name
    IN /\ e >= Len(opener)
       /\ SubSeq(code, e - Len(opener) + 1, e) = opener

-----------------------------------------------------------------------------
(* C7. Escape neutrality *)

\* Every character a text may hold at some place.
Chars == RawChars \cup {" ", "x"}

\* How a run ended: the result and the kinds of the failures reported.
Verdict(s) ==
  <<s.result, [j \in 1..Len(s.raised \o s.printed) |->
                 (s.raised \o s.printed)[j].message.kind]>>

\* The checker is at an escape marker, at top level or in an unquoted
\* argument, and a character follows it.
AtEscape ==
  /\ result = "none"
  /\ at_escape(St) \/ (in_args(St) /\ current_char(St) = Backquote)
  /\ pos + 1 < Len(code)

\* C7: an escape marker at top level or in an unquoted argument is consumed
\* with the character after it, with no change of the stack and no parsing
\* of a tag, and whatever character stands after the marker, the check ends
\* with the same verdict and the same kind of failure.
C7_EscapeNeutrality ==
  [][AtEscape =>
       /\ pos' = pos + 2
       /\ stack' = stack /\ pc' = pc /\ result' = "none"
       /\ tag_name' = tag_name /\ is_closing' = is_closing
       /\ Failures' = Failures
       /\ \A ch \in Chars :
            Verdict(check([St EXCEPT !.code[pos + 2] = ch])) = Verdict(check(St))
    ]_vars

\* In "[b `]" the escaped "]" has not ended the tag.
C7_Witness ==
  /\ code = <<"[", "b", " ", Backquote, "]">>
  /\ pos = 5
  /\ FailedWith("MissingTagTerminator")

-----------------------------------------------------------------------------
(* C8. Single-tag non-stacking *)

\* The checker is about to classify a well-formed tag with a single name.
AtSingleTagEnd ==
  /\ result = "none"
  /\ at_tag_end(St)
  /\ current_char(St) = "]"
  /\ tag_name \in single_tags

\* C8: an opening tag with a name of the single set is accepted and leaves
\* the stack as it is; a closing tag with such a name fails with
\* CloseOfSingleTag whatever the stack holds, and the stack is not popped.
C8_SingleTagNonStacking ==
  [][AtSingleTagEnd =>
       /\ stack' = stack
       /\ IF is_closing
            THEN /\ FailedWith("CloseOfSingleTag")'
                 /\ Failures'[1].stack = stack
            ELSE Failures' = <<>> /\ ret' /\ result' = "none"
    ]_vars

\* With b a single name, in [i][b][/b] the tag [b] has left the stack [i]
\* alone and [/b] has failed without popping it.
C8_Witness ==
  /\ code = OpenTag(i) \o OpenTag(b) \o CloseTag(b)
  /\ FailedWith("CloseOfSingleTag")
  /\ stack = <<i>>

-----------------------------------------------------------------------------
(* C9. Mode equivalence *)

\* C9: a check that has ended and the check of the same input with the same
\* tag sets in the other mode agree: both return True, or the raising one
\* raises DSLSyntaxError and the reporting one returns False, and the error
\* raised has the line, column, message and stack that were printed.
C9_ModeEquivalence ==
  result # "none" =>
    LET other == check_syntax(code, single_tags, group_tags, ~raise_exception)
        raising == IF raise_exception THEN St ELSE other
        reporting == IF raise_exception THEN other ELSE St
    IN /\ raising.result = "True" <=> reporting.result = "True"
       /\ raising.result = "DSLSyntaxError" <=> reporting.result = "False"
       /\ raising.result # "False" /\ reporting.result # "DSLSyntaxError"
       /\ raising.raised = reporting.printed
       /\ raising.printed = <<>> /\ reporting.raised = <<>>

\* A raising check has ended with a DSLSyntaxError that carries a stack.
C9_Witness ==
  /\ raise_exception
  /\ result = "DSLSyntaxError"
  /\ FailedWith("MismatchedClose")
  /\ raised[1].stack # <<>>

-----------------------------------------------------------------------------
(* C10. Fail-fast *)

\* C10: after a failure has been reported no character is consumed, the
\* stack does not change and no second failure is reported; the next step
\* ends the check with False, and a check that returns False has printed
\* exactly one diagnostic.
C10_FailFast ==
  [][/\ Failures # <<>> =>
          /\ pos' = pos /\ stack' = stack /\ Failures' = Failures
          /\ result' \in {"False", "DSLSyntaxError"}
     /\ Len(Failures') <= 1
     /\ result' = "False" => Len(printed') = 1
     /\ result' = "DSLSyntaxError" => Len(raised') = 1 /\ printed' = <<>>
    ]_vars

\* parse_tag has reported a failure before the end of the input and check
\* has returned False at once.
C10_Witness ==
  /\ result = "False"
  /\ pc = "tag_ret"
  /\ Len(printed) = 1
  /\ pos < Len(code)

-----------------------------------------------------------------------------
(* C11 *)

\* The terminating "]" of a tag is the current character: the name and the
\* arguments were accepted.
AtTagTerminator ==
  result = "none" /\ at_tag_end(St) /\ current_char(St) = "]"

\* C11: a well-formed opening tag whose name is in neither set makes the check
\* fail with UnknownTag: the failure names the tag, it is raised after the
\* terminating "]" is consumed (pos and col are those after it), and the
\* stack, reported and kept, is the one before the tag.
C11_UnknownTag ==
  [][(/\ AtTagTerminator
      /\ ~is_closing
      /\ MatchesNameGrammar(tag_name)
      /\ tag_name \notin single_tags \cup group_tags)
       => /\ FailedWith("UnknownTag")'
          /\ Failures'[1].message.tag = tag_name
          /\ pos' = pos + 1
          /\ Failures'[1].col = col + 1
          /\ Failures'[1].line = line
          /\ stack' = stack
          /\ Failures'[1].stack = stack]_vars

\* [b][x]: the unknown tag is reported after its "]", the stack still holds b.
C11_Witness ==
  /\ code = OpenTag(b) \o OpenTag(<<"x">>)
  /\ FailedWith("UnknownTag")
  /\ Failures[1].message.tag = <<"x">>
  /\ pos = 6
  /\ stack = <<b>>

-----------------------------------------------------------------------------
(* C12 *)

\* The scan is inside a quoted argument, after its opening quote.
InQuotedArgument == result = "none" /\ pc = "quote"

\* The escape marker is the last character of the input.
AtLastEscape == current_char(St) = Backquote /\ pos + 1 = Len(code)

\* One step inside a quoted argument: the first unescaped quote ends the
\* argument, an escape marker consumes itself and the next character, whatever
\* it is, and any other character, "[" and "]" too, is content.
QuotedScan ==
  /\ current_char(St) = "\""
       => pos' = pos + 1 /\ pc' = "args" /\ Failures' = <<>>
  /\ (current_char(St) = Backquote /\ pos + 1 < Len(code))
       => pos' = pos + 2 /\ pc' = "quote" /\ Failures' = <<>>
  /\ current_char(St) \notin {None, Backquote, "\""}
       => pos' = pos + 1 /\ pc' = "quote" /\ Failures' = <<>>
  /\ stack' = stack

\* C12: inside a quoted argument characters are consumed up to the first
\* unescaped quote, an escape marker consumes itself and the next character as
\* content, and whenever the end of the input is reached before an unescaped
\* closing quote the check fails with UnterminatedQuotedArgument.
C12_QuotedArgument ==
  [][InQuotedArgument
       => /\ QuotedScan
          /\ (current_char(St) = None \/ AtLastEscape)
               => FailedWith("UnterminatedQuotedArgument")']_vars

\* C12 as the code has it: the end of the input right after an escape marker
\* inside the quote is reported as a lone escape marker in a quoted argument,
\* any other end of the input inside the quote as UnterminatedQuotedArgument.
C12_QuotedArgumentAmended ==
  [][InQuotedArgument
       => /\ QuotedScan
          /\ current_char(St) = None
               => FailedWith("UnterminatedQuotedArgument")'
          /\ AtLastEscape
               => /\ FailedWith("DanglingEscape (quoted)")'
                  /\ ~FailedWith("UnterminatedQuotedArgument")'
                  /\ pos' = Len(code)]_vars

\* [b "b` : the input ends after the escape marker inside the quote.
C12_Witness ==
  /\ code = <<"[", "b", " ", "\"", "b", Backquote>>
  /\ FailedWith("DanglingEscape (quoted)")
  /\ pos = 6
  /\ stack = <<>>

-----------------------------------------------------------------------------
(* C13 *)

\* C13: advance() is invoked only when a character exists at the cursor
\* (pos < length of the input): it is never called at the end of the input,
\* where reading the character to consume raises IndexError.
C13_AdvancePrecondition == result # "IndexError"

-----------------------------------------------------------------------------
(* C14 *)

\* The offsets, from 1, of the newlines among the first n characters.
NewlinesBefore(n) == {j \in 1..n : code[j] = "\n"}

\* The offset of the last newline among the first n characters, 0 if none.
LastNewlineBefore(n) ==
  IF NewlinesBefore(n) = {} THEN 0
  ELSE CHOOSE j \in NewlinesBefore(n) : \A k \in NewlinesBefore(n) : k <= j

\* The cursor agrees with the consumed prefix.
CursorAgrees ==
  /\ pos \in 0..Len(code)
  /\ line = 1 + Cardinality(NewlinesBefore(pos))
  /\ col = 1 + (pos - LastNewlineBefore(pos))
  /\ \A j \in 1..Len(Failures) :
       /\ Failures[j].line = line /\ Failures[j].line >= 1
       /\ Failures[j].col = col /\ Failures[j].col >= 1

\* C14: in every state 0 <= pos <= length of the input, line is 1 plus the
\* number of newlines in the consumed prefix, col is 1 plus the number of
\* characters consumed since the last newline, so that every reported failure
\* has line >= 1 and col >= 1; and no step decreases pos.
C14_CursorInvariant ==
  [][CursorAgrees /\ CursorAgrees' /\ pos' >= pos]_vars

\* A failure is reported on the second line, after a character of it.
C14_Witness ==
  /\ code = <<"[", "b", " ", "\n", "b">>
  /\ FailedWith("MissingTagTerminator")
  /\ pos = 5
  /\ Failures[1].line = 2
  /\ Failures[1].col = 2

-----------------------------------------------------------------------------
(* C15 *)

\* The step pushes the name of the opening group tag that ends here.
PushedByOpeningGroupTag ==
  /\ AtTagTerminator /\ ~is_closing /\ tag_name \in group_tags
  /\ stack' = Append(stack, tag_name)

\* The step pops the name of the closing tag that ends here.
PoppedByMatchingClosingTag ==
  /\ AtTagTerminator /\ is_closing /\ stack # <<>>
  /\ tag_name = stack[Len(stack)]
  /\ stack' = SubSeq(stack, 1, Len(stack) - 1)

\* C15: every element of the stack is in the group set; the stack changes
\* only by the push of an opening group tag and by the pop of a closing tag
\* whose name equals the popped element.
C15_StackDiscipline ==
  [][/\ \A j \in 1..Len(stack) : stack[j] \in group_tags
     /\ \A j \in 1..Len(stack') : stack'[j] \in group_tags
     /\ stack' # stack
          => PushedByOpeningGroupTag \/ PoppedByMatchingClosingTag]_vars

-----------------------------------------------------------------------------
(* C16 *)

\* The reference scanner: parse_tag() with one change, that the unquoted
\* branch of the argument loop, once taken, goes on in a loop of its own until
\* an unescaped whitespace, "]" or the end of the input is the current
\* character. The branch is taken as in parse_tag(), and consumes as there.

\* The unquoted branch, once: an escape marker and the character after it,
\* or one character of content; an unescaped "[" is an error.
ref_unquoted(s) ==
  LET ch == current_char(s)
  IN IF ch = Backquote
       THEN LET s2 == advance(s)
            IN IF current_char(s2) = None
                 THEN parse_tag_fail(s2, DanglingEscapeUnquoted)
                 ELSE advance(s2)
     ELSE IF ch = "[" THEN parse_tag_fail(s, IllegalBracketInArgument)
     ELSE advance(s)

\* The loop of the reference scanner over the rest of an unquoted argument.
in_ref_unquoted(s) == s.pc = "unquoted"
ref_unquoted_loop(s) ==
  IF current_char(s) = None \/ is_whitespace(current_char(s))
       \/ current_char(s) = "]"
    THEN [s EXCEPT !.pc = "args"]
    ELSE ref_unquoted(s)

\* One iteration of the argument loop of the reference scanner.
ref_arg_loop(s) ==
  LET ws == is_whitespace(current_char(s))
      s1 == IF ws THEN skip_whitespace(s) ELSE s
      ch == current_char(s1)
  IN IF ws /\ ch = "]" THEN [s1 EXCEPT !.pc = "term"]
     ELSE IF ch = "\"" THEN [advance(s1) EXCEPT !.pc = "quote"]
     ELSE ref_unquoted([s1 EXCEPT !.pc = "unquoted"])

ref_step(s) ==
  IF in_ref_unquoted(s) THEN ref_unquoted_loop(s)
  ELSE IF in_args(s) THEN ref_arg_loop(s)
  ELSE check_step(s)

RECURSIVE ref_check(_)
ref_check(s) == IF Running(s) THEN ref_check(ref_step(s)) ELSE s

\* The reference scanner meets a quote inside an unquoted argument, after the
\* first character of the argument.
RECURSIVE RefMeetsQuoteInArgument(_)
RefMeetsQuoteInArgument(s) ==
  /\ Running(s)
  /\ \/ in_ref_unquoted(s) /\ current_char(s) = "\""
     \/ RefMeetsQuoteInArgument(ref_step(s))

\* The checker of this run, as it was made.
Started == SyntaxChecker(code, single_tags, group_tags, raise_exception)

-----------------------------------------------------------------------------
(* C17 *)

\* The kinds of the failures reported so far.
FailureKinds == [j \in 1..Len(Failures) |-> Failures[j].message.kind]

\* The letters and digits among the characters of the inputs.
Alphanumeric == AsciiAlnum \cup {NonAsciiLetter}

\* The character at offset n, from 0, of the input; None past its end.
CharAt(n) == IF n < Len(code) THEN code[n + 1] ELSE None

\* The check is at the "[" of a tag; the first character of the name is the
\* one after "[", or after "[/".
AtTagStart == result = "none" /\ at_tag(St)
FirstNameChar ==
  IF CharAt(pos + 1) = "/" THEN CharAt(pos + 2) ELSE CharAt(pos + 1)

\* The failure the first character of a name gives, "none" if it gives none.
NameStartFailure(ch) ==
  IF ch = None THEN "MissingTagName"
  ELSE IF ch = Backquote THEN "EscapeInTagName"
  ELSE IF ch \notin Alphanumeric \cup {"#"} THEN "InvalidTagNameStart"
  ELSE "none"

\* The failure a later character of a name gives, "none" if it gives none.
NameRestFailure(ch) ==
  IF ch = None THEN "UnterminatedTagName"
  ELSE IF ch = Backquote THEN "EscapeInTagName"
  ELSE IF ch \in {" ", "\n", "]"} \cup Alphanumeric \cup {"#", "_", "-"}
    THEN "none"
  ELSE "InvalidTagNameChar"

\* The step reports the failure of this kind, and none if the kind is "none".
Reports(kind) ==
  /\ FailureKinds' = IF kind = "none" THEN <<>> ELSE <<kind>>
  /\ kind # "none" => Failures'[1].stack = stack

\* C17: after "[" or "[/" the end of the input gives MissingTagName, an escape
\* marker EscapeInTagName, any other first character that is neither
\* alphanumeric nor "#" InvalidTagNameStart; in the rest of the name an escape
\* marker gives EscapeInTagName, the end of the input UnterminatedTagName, any
\* other disallowed character InvalidTagNameChar; and the stack, kept and
\* reported, is not changed by any of them.
C17_TagNameErrors ==
  [][/\ AtTagStart
          => Reports(NameStartFailure(FirstNameChar)) /\ stack' = stack
     /\ (result = "none" /\ in_name(St))
          => Reports(NameRestFailure(current_char(St))) /\ stack' = stack]_vars

\* [b][/ : the input ends after the closing marker, and b stays on the stack.
C17_Witness ==
  /\ code = OpenTag(b) \o <<"[", "/">>
  /\ FailureKinds = <<"MissingTagName">>
  /\ Failures[1].stack = <<b>>
  /\ stack = <<b>>

-----------------------------------------------------------------------------
(* C18 *)

\* The longest input of the runs that are followed to their end.
MaxFairLen == 5

\* check() is one sequential call: once started it runs on, so a step that
\* can be taken is taken in the end.
FairInit == Init /\ Len(code) <= MaxFairLen
FairSpec == FairInit /\ [][Next]_vars /\ WF_vars(Next)

\* C18: for every finite input check() ends, with a verdict or a failure;
\* every step that stays in its loop (the top-level loop, the name loop, the
\* argument loop, the quoted loop) consumes at least one character, and no
\* step moves the cursor back, so the input is scanned once.
C18_Termination ==
  /\ <>(result # "none")
  /\ [][/\ pos' >= pos
        /\ (pc' = pc /\ result' = "none") => pos' > pos]_vars

\* A check that went through all four loops has ended.
C18_Witness ==
  /\ code = <<"[", "b", " ", "\"", "\"">>
  /\ result # "none"
  /\ pos = Len(code)

-----------------------------------------------------------------------------
(* C19 *)

\* The step reports the failure of the check.
ReportsFailure == Failures = <<>> /\ Failures' # <<>>

\* C19: the stack a MismatchedClose failure carries is the stack before the
\* closing tag with its top removed, and the message names the closing tag
\* and the removed element; the stack any other failure carries is the stack
\* as it was before the failing construct.
C19_MismatchSnapshot ==
  [][ReportsFailure
       => IF Failures'[1].message.kind = "MismatchedClose"
            THEN /\ stack # <<>>
                 /\ Failures'[1].stack = SubSeq(stack, 1, Len(stack) - 1)
                 /\ Failures'[1].message.last = stack[Len(stack)]
                 /\ Failures'[1].message.tag = tag_name
                 /\ tag_name # stack[Len(stack)]
            ELSE Failures'[1].stack = stack]_vars

\* [b]x[/i] : the failure names i and b and carries the empty stack.
C19_Witness ==
  /\ code = OpenTag(b) \o <<"x">> \o CloseTag(i)
  /\ FailedWith("MismatchedClose")
  /\ Failures[1].message.tag = i
  /\ Failures[1].message.last = b
  /\ Failures[1].stack = <<>>

-----------------------------------------------------------------------------
(* C20 *)

\* The failure the closing tag of this name gives on this stack, "none" if it
\* gives none: the three tests in their order.
ClosingFailure(name, stk) ==
  IF name \in single_tags THEN "CloseOfSingleTag"
  ELSE IF stk = <<>> THEN "CloseWithoutOpen"
  ELSE IF stk[Len(stk)] # name THEN "MismatchedClose"
  ELSE "none"

\* C20: a name in both sets is always treated as single: its opening tag
\* passes and pushes nothing, its closing tag fails with CloseOfSingleTag.
\* The tests of a closing tag come in the order CloseOfSingleTag,
\* CloseWithoutOpen, MismatchedClose, and a closing tag never fails with
\* UnknownTag: a closing tag of a name of neither set fails with
\* CloseWithoutOpen on an empty stack and with MismatchedClose otherwise.
C20_ClassificationPrecedence ==
  [][AtTagTerminator
       => /\ is_closing
               => /\ FailureKinds' =
                       IF ClosingFailure(tag_name, stack) = "none" THEN <<>>
                       ELSE <<ClosingFailure(tag_name, stack)>>
                  /\ ~FailedWith("UnknownTag")'
          /\ (~is_closing /\ tag_name \in single_tags \cap group_tags)
               => Failures' = <<>> /\ stack' = stack /\ ret']_vars

\* [b][/b] with b in both sets: [b] pushed nothing and passed, [/b] fails as
\* the closing tag of a single tag.
C20_Witness ==
  /\ code = OpenTag(b) \o CloseTag(b)
  /\ b \in single_tags \cap group_tags
  /\ FailureKinds = <<"CloseOfSingleTag">>
  /\ stack = <<>>
  /\ pos = 7

=============================================================================
